---- MODULE Spec2Model ----
(***************************************************************************)
(* The prompt-cache lifecycle of the terminal chat client: CacheManager    *)
(* and CacheMetadata, the conversation they annotate, the commands and the *)
(* send path that drive them, and the conversation files on disk.          *)
(*                                                                         *)
(* Three specifications share the definitions:                             *)
(*   Spec      the application: commands, sends, restarts, disk            *)
(*   SpecLife  the manager's life cycle against a clock with seconds       *)
(*   SpecFn    the manager's operations called on arbitrary arguments      *)
(***************************************************************************)
EXTENDS Integers, Sequences, FiniteSets, TLC

VARIABLES
    build,           \* which ChatService / send_message_to_claude is installed
    messages,        \* conversation.messages
    conv_cache,      \* conversation.cache_metadata (a dict, or None)
    cache_metadata,  \* CacheManager.cache_metadata (a CacheMetadata, or None)
    now,             \* datetime.now(), in seconds
    nticks,          \* how often the clock has advanced
    written,         \* what this step wrote to data/conversation.json
    archive,         \* the file of data/conversations/ that /load names
    sent,            \* the message list last handed to the transport
    prep,            \* the last prepare_messages_with_cache call
    usage,           \* the usage counters of the response this step received
    ret,             \* the index create_cache_point returned in this step
    replaced,        \* the status of the checkpoint this step's creation replaced
    lastOp           \* the operation that produced this state

vars == <<build, messages, conv_cache, cache_metadata, now, nticks,
          written, archive, sent, prep, usage, ret, replaced, lastOp>>

-----------------------------------------------------------------------------
(* Bounds *)

MaxMsgs == 3
MaxTicks == 2
MaxTime == 3600
MaxCreate == 2
MaxRead == 1
MaxConv == 2
MaxDiskMsgs == 2
MaxCullMsgs == 5

(* Program constants *)

SecondsPerMinute == 60
ShortDuration == 5
LongDuration == 60

-----------------------------------------------------------------------------
(* Python's None for an Optional[int] or Optional[datetime]; an Optional   *)
(* object is a sequence of length 0 (None) or 1.                           *)

NoTime == 0 - 1
NoIndex == 0 - 1
None == <<>>
Some(x) == <<x>>

-----------------------------------------------------------------------------
(* Messages.  A content is a str or a list of content blocks; a block      *)
(* carries its type, its text (text blocks) and its cache_control entry    *)
(* ("none" when the key is absent, otherwise the ttl of the ephemeral      *)
(* marker).                                                                *)

StrContent(t) == [str |-> TRUE, text |-> t, blocks |-> <<>>]
ListContent(bs) == [str |-> FALSE, text |-> "", blocks |-> bs]
Block(ty, tx) == [type |-> ty, text |-> tx, cache_control |-> "none"]

Message(r, c, sw) == [role |-> r, content |-> c, model_switch |-> sw]

add_message(ms, m) == Append(ms, m)

add_user_message(ms, c) == add_message(ms, Message("user", c, FALSE))

add_assistant_message(ms, t) ==
    add_message(ms, Message("assistant", StrContent(t), FALSE))

add_model_switch_message(ms) ==
    add_message(ms, Message("system", StrContent("switch"), TRUE))

has_messages(ms) == Len(ms) > 0

Skipped(m) == m.role = "system" /\ m.model_switch

(* The positions of conversation.messages that get_api_messages keeps, in  *)
(* order: the k-th API message is built from messages[ApiSources(ms)[k]]   *)
(* and shares its content object.                                          *)
RECURSIVE ApiSourcesFrom(_, _)
ApiSourcesFrom(ms, i) ==
    IF i > Len(ms) THEN <<>>
    ELSE (IF Skipped(ms[i]) THEN <<>> ELSE <<i>>) \o ApiSourcesFrom(ms, i + 1)

ApiSources(ms) == ApiSourcesFrom(ms, 1)

get_api_messages(ms) ==
    [k \in 1..Len(ApiSources(ms)) |->
        [role |-> ms[ApiSources(ms)[k]].role,
         content |-> ms[ApiSources(ms)[k]].content]]

RECURSIVE LastUserFrom(_, _)
LastUserFrom(ms, i) ==
    IF i < 1 THEN 0
    ELSE IF ms[i].role = "user" THEN i ELSE LastUserFrom(ms, i - 1)

RemoveAt(ms, i) == SubSeq(ms, 1, i - 1) \o SubSeq(ms, i + 1, Len(ms))

remove_last_user_message(ms) ==
    IF LastUserFrom(ms, Len(ms)) = 0 THEN ms
    ELSE RemoveAt(ms, LastUserFrom(ms, Len(ms)))

-----------------------------------------------------------------------------
(* CacheMetadata *)

CacheMetadata(idx, created, dur, hit, ctok, htok, total) ==
    [cache_point_index |-> idx,
     created_at |-> created,
     duration_minutes |-> dur,
     last_hit_at |-> hit,
     cache_creation_tokens |-> ctok,
     cache_hit_tokens |-> htok,
     total_cached_messages |-> total]

(* int(x / 60): the quotient truncated towards zero *)
TruncDiv(a, b) == IF a >= 0 THEN a \div b ELSE 0 - ((0 - a) \div b)

(* None is NoTime: the result is a count of minutes otherwise *)
minutes_since_hit(m, t) ==
    IF m.last_hit_at = NoTime THEN NoTime
    ELSE TruncDiv(t - m.last_hit_at, SecondsPerMinute)

get_status_late(m, t) ==
    IF m.last_hit_at = NoTime THEN "none"
    ELSE IF minutes_since_hit(m, t) > m.duration_minutes THEN "expired"
    ELSE "active"

get_status(m, t) ==
    IF m.last_hit_at = NoTime THEN "none"
    ELSE IF minutes_since_hit(m, t) >= m.duration_minutes THEN "expired"
    ELSE "active"

(* datetime.isoformat() and datetime.fromisoformat(): the text carries the *)
(* day, hour, minute and second fields of the instant.                     *)
isoformat(t) ==
    <<t \div 86400, (t % 86400) \div 3600, (t % 3600) \div 60, t % 60>>

fromisoformat_minutes(s) == s[1] * 86400 + s[2] * 3600 + s[3] * 60

fromisoformat(s) == s[1] * 86400 + s[2] * 3600 + s[3] * 60 + s[4]

(* dict.get(key, default) on a dict modelled as a record *)
Get(d, k, default) == IF k \in DOMAIN d THEN d[k] ELSE default

(* The JSON null of an absent last_hit_at *)
Null == <<>>

CacheMetadata_to_dict(m) ==
    [cache_point_index |-> m.cache_point_index,
     created_at |-> isoformat(m.created_at),
     last_hit_at |-> IF m.last_hit_at # NoTime
                     THEN isoformat(m.last_hit_at) ELSE Null,
     cache_creation_tokens |-> m.cache_creation_tokens,
     cache_hit_tokens |-> m.cache_hit_tokens,
     total_cached_messages |-> m.total_cached_messages,
     duration_minutes |-> m.duration_minutes]

(* Defined when the keys cache_point_index, created_at and duration_minutes *)
(* are present (a KeyError otherwise)                                       *)
CacheMetadata_from_dict(d) ==
    CacheMetadata(
        d.cache_point_index,
        fromisoformat(d.created_at),
        d.duration_minutes,
        IF Get(d, "last_hit_at", Null) # Null
        THEN fromisoformat(d.last_hit_at) ELSE NoTime,
        Get(d, "cache_creation_tokens", 0),
        Get(d, "cache_hit_tokens", 0),
        Get(d, "total_cached_messages", 0))

-----------------------------------------------------------------------------
(* CacheManager.  md is the manager's cache_metadata: None or Some(m).     *)

(* The result is the new cache_metadata and the returned index (NoIndex    *)
(* for None).                                                              *)
create_cache_point_keep(md, ms, duration_minutes, t) ==
    IF ~has_messages(ms) THEN [md |-> md, ret |-> NoIndex]
    ELSE IF md # None
    THEN [md |-> Some([md[1] EXCEPT !.cache_point_index = Len(ms) - 1,
                                    !.created_at = t,
                                    !.duration_minutes = duration_minutes,
                                    !.total_cached_messages = Len(ms)]),
          ret |-> Len(ms) - 1]
    ELSE [md |-> Some(CacheMetadata(Len(ms) - 1, t, duration_minutes,
                                    NoTime, 0, 0, (Len(ms) - 1) + 1)),
          ret |-> Len(ms) - 1]

create_cache_point_len(md, ms, duration_minutes, t) ==
    IF ~has_messages(ms) THEN [md |-> md, ret |-> NoIndex]
    ELSE [md |-> Some(CacheMetadata(Len(ms), t, duration_minutes,
                                    NoTime, 0, 0, Len(ms) + 1)),
          ret |-> Len(ms)]

create_cache_point_unguarded(md, ms, duration_minutes, t) ==
    [md |-> Some(CacheMetadata(Len(ms) - 1, t, duration_minutes,
                               NoTime, 0, 0, (Len(ms) - 1) + 1)),
     ret |-> Len(ms) - 1]

create_cache_point(md, ms, duration_minutes, t) ==
    IF ~has_messages(ms) THEN [md |-> md, ret |-> NoIndex]
    ELSE [md |-> Some(CacheMetadata(Len(ms) - 1, t, duration_minutes,
                                    NoTime, 0, 0, (Len(ms) - 1) + 1)),
          ret |-> Len(ms) - 1]

Markable_text == {"text"}

Markable == {"text", "image", "document"}

ttl_of_short(m) == "5m"

ttl_of(m) == IF m.duration_minutes = 60 THEN "1h" ELSE "5m"

prepare_messages_with_cache_every(md, msgs) ==
    IF md = None \/ msgs = <<>> THEN [out |-> msgs, inp |-> msgs]
    ELSE [out |-> [k \in 1..Len(msgs) |->
                      IF msgs[k].content.str
                      THEN [msgs[k] EXCEPT !.content =
                              ListContent(<<[type |-> "text",
                                             text |-> msgs[k].content.text,
                                             cache_control |-> ttl_of(md[1])]>>)]
                      ELSE msgs[k]],
          inp |-> msgs]

(* The result is the returned list (out) and the argument list as it is    *)
(* after the call (inp): msg.copy() is a shallow copy, so the copy of a    *)
(* message with list content shares the list and its blocks with the       *)
(* argument, and last_block["cache_control"] = ... writes to the shared    *)
(* block.                                                                  *)
prepare_messages_with_cache(md, msgs) ==
    IF md = None \/ msgs = <<>> THEN [out |-> msgs, inp |-> msgs]
    ELSE IF md[1].cache_creation_tokens > 0 THEN [out |-> msgs, inp |-> msgs]
    ELSE LET i == md[1].cache_point_index + 1
             ttl == ttl_of(md[1])
         IN IF i \notin 1..Len(msgs) THEN [out |-> msgs, inp |-> msgs]
            ELSE IF msgs[i].content.str
            THEN [out |-> [msgs EXCEPT ![i].content =
                            ListContent(<<[type |-> "text",
                                           text |-> msgs[i].content.text,
                                           cache_control |-> ttl]>>)],
                  inp |-> msgs]
            ELSE LET bs == msgs[i].content.blocks
                 IN IF bs # <<>> /\ bs[Len(bs)].type \in Markable
                    THEN LET marked ==
                               [msgs EXCEPT
                                  ![i].content.blocks[Len(bs)].cache_control = ttl]
                         IN [out |-> marked, inp |-> marked]
                    ELSE [out |-> msgs, inp |-> msgs]

update_from_response_elif(md, c, r, t) ==
    IF md = None THEN md
    ELSE LET m0 == md[1]
         IN IF c > 0
            THEN Some(IF m0.cache_creation_tokens = 0
                      THEN [m0 EXCEPT !.cache_creation_tokens = c,
                                      !.last_hit_at = t]
                      ELSE m0)
            ELSE IF r > 0
            THEN Some([m0 EXCEPT !.cache_hit_tokens = r, !.last_hit_at = t])
            ELSE Some(m0)

update_from_response_overwrite(md, c, r, t) ==
    IF md = None THEN md
    ELSE LET m0 == md[1]
             m1 == IF c > 0
                   THEN [m0 EXCEPT !.cache_creation_tokens = c,
                                   !.last_hit_at = t]
                   ELSE m0
             m2 == IF r > 0
                   THEN [m1 EXCEPT !.cache_hit_tokens = r, !.last_hit_at = t]
                   ELSE m1
         IN Some(m2)

update_from_response_touch(md, c, r, t) ==
    IF md = None THEN md
    ELSE LET m0 == md[1]
             m1 == IF c > 0 /\ m0.cache_creation_tokens = 0
                   THEN [m0 EXCEPT !.cache_creation_tokens = c,
                                   !.last_hit_at = t]
                   ELSE m0
             m2 == IF r > 0
                   THEN [m1 EXCEPT !.cache_hit_tokens = r, !.last_hit_at = t]
                   ELSE [m1 EXCEPT !.last_hit_at = t]
         IN Some(m2)

update_from_response_recount(md, c, r, t) ==
    IF md = None THEN md
    ELSE LET m0 == md[1]
             m1 == IF c > 0 /\ m0.cache_creation_tokens = 0
                   THEN [m0 EXCEPT !.cache_creation_tokens = c,
                                   !.total_cached_messages = c,
                                   !.last_hit_at = t]
                   ELSE m0
             m2 == IF r > 0
                   THEN [m1 EXCEPT !.cache_hit_tokens = r, !.last_hit_at = t]
                   ELSE m1
         IN Some(m2)

(* usage.get(..., 0) of the two counters: c, r *)
update_from_response(md, c, r, t) ==
    IF md = None THEN md
    ELSE LET m0 == md[1]
             m1 == IF c > 0 /\ m0.cache_creation_tokens = 0
                   THEN [m0 EXCEPT !.cache_creation_tokens = c,
                                   !.last_hit_at = t]
                   ELSE m0
             m2 == IF r > 0
                   THEN [m1 EXCEPT !.cache_hit_tokens = r, !.last_hit_at = t]
                   ELSE m1
         IN Some(m2)

get_cache_status_display(md, t) ==
    IF md = None THEN ""
    ELSE IF md[1].last_hit_at = NoTime THEN ""
    ELSE IF minutes_since_hit(md[1], t) >= md[1].duration_minutes
    THEN "expired"
    ELSE "active"

has_active_cache(md, t) ==
    IF md = None THEN FALSE ELSE get_status(md[1], t) = "active"

clear_cache_noop(md) == md

clear_cache_if_hit(md) ==
    IF md # None /\ md[1].last_hit_at = NoTime THEN md ELSE None

clear_cache(md) == None

(* None when there is no checkpoint *)
get_cache_info(md, t) ==
    IF md = None THEN None
    ELSE Some([status |-> get_status(md[1], t),
               minutes_since_hit |-> minutes_since_hit(md[1], t),
               duration_minutes |-> md[1].duration_minutes,
               cached_messages |-> md[1].total_cached_messages,
               cache_creation_tokens |-> md[1].cache_creation_tokens,
               cache_hit_tokens |-> md[1].cache_hit_tokens])

CacheManager_to_dict(md) ==
    IF md = None THEN None ELSE Some(CacheMetadata_to_dict(md[1]))

(* data is None or Some(dict); a dict written by to_dict is never empty *)
CacheManager_from_dict(md, data) ==
    IF data # None THEN Some(CacheMetadata_from_dict(data[1])) ELSE md

-----------------------------------------------------------------------------
(* Conversation files.  Message.to_dict writes model_switch only when it   *)
(* is set and Conversation.to_dict writes cache_metadata only when it is   *)
(* set; from_dict reads both with dict.get.                                *)

Message_to_dict(m) ==
    IF m.model_switch
    THEN [role |-> m.role, content |-> m.content, model_switch |-> TRUE]
    ELSE [role |-> m.role, content |-> m.content]

Message_from_dict(d) ==
    Message(d.role, d.content, Get(d, "model_switch", FALSE))

Conversation_to_dict(ms, cc) ==
    IF cc # None
    THEN [messages |-> [i \in 1..Len(ms) |-> Message_to_dict(ms[i])],
          cache_metadata |-> cc[1]]
    ELSE [messages |-> [i \in 1..Len(ms) |-> Message_to_dict(ms[i])]]

(* The messages and the cache_metadata of the conversation read back *)
Conversation_from_dict(d) ==
    [messages |-> [i \in 1..Len(d.messages) |-> Message_from_dict(d.messages[i])],
     cache_metadata |-> IF "cache_metadata" \in DOMAIN d
                        THEN Some(d.cache_metadata) ELSE None]

(* ConversationStore.save_conversation: the file's new content *)
save_conversation(ms, cc) == Some(Conversation_to_dict(ms, cc))

-----------------------------------------------------------------------------
(* The send path *)

Builds == {"src", "terminal-app"}

UserContents ==
    {StrContent("u"),
     ListContent(<<Block("text", "u"), Block("document", "")>>)}

ShouldPrepare_src_only(b, md, t) == b = "src" /\ md # None

(* ChatService.send_message, up to the call of the transport: whether the  *)
(* messages are prepared at all differs between the two services.          *)
ShouldPrepare(b, md, t) ==
    IF b = "src" THEN md # None ELSE has_active_cache(md, t)

Prepared(b, md, t, api) ==
    IF ShouldPrepare(b, md, t)
    THEN prepare_messages_with_cache(md, api)
    ELSE [out |-> api, inp |-> api]

(* conversation.messages after the API messages built from it were         *)
(* written to: the k-th API message shares its content with                *)
(* messages[ApiSources(ms)[k]].                                            *)
WriteBack(ms, inp) ==
    [i \in 1..Len(ms) |->
        IF \E k \in 1..Len(inp) : ApiSources(ms)[k] = i
        THEN [ms[i] EXCEPT !.content =
                inp[CHOOSE k \in 1..Len(inp) : ApiSources(ms)[k] = i].content]
        ELSE ms[i]]

RECURSIVE CullFrom_nosys(_, _, _, _, _)
CullFrom_nosys(ms, i, u, a, n) ==
    IF i > Len(ms) THEN <<>>
    ELSE IF ms[i].role = "user" /\ u < n THEN CullFrom_nosys(ms, i + 1, u + 1, a, n)
    ELSE IF ms[i].role = "assistant" /\ a < n THEN CullFrom_nosys(ms, i + 1, u, a + 1, n)
    ELSE IF ms[i].role = "system" THEN CullFrom_nosys(ms, i + 1, u, a, n)
    ELSE <<ms[i]>> \o CullFrom_nosys(ms, i + 1, u, a, n)

(* CullCommand.execute's loop: drop the first n user and the first n       *)
(* assistant messages, keep the rest in order.                             *)
RECURSIVE CullFrom(_, _, _, _, _)
CullFrom(ms, i, u, a, n) ==
    IF i > Len(ms) THEN <<>>
    ELSE IF ms[i].role = "user" /\ u < n THEN CullFrom(ms, i + 1, u + 1, a, n)
    ELSE IF ms[i].role = "assistant" /\ a < n THEN CullFrom(ms, i + 1, u, a + 1, n)
    ELSE <<ms[i]>> \o CullFrom(ms, i + 1, u, a, n)

CountRole(ms, r) == Cardinality({i \in 1..Len(ms) : ms[i].role = r})

NoPrep == [called |-> FALSE, before |-> <<>>, after |-> <<>>]
NoUsage == [c |-> 0 - 1, r |-> 0 - 1]

(* What a call of create_cache_point, update_from_response or clear_cache  *)
(* on the manager alone found in it: nothing, or a checkpoint of some      *)
(* status; "-" for any other step.                                         *)
Found(md, t) == IF md = None THEN "nothing" ELSE get_status(md[1], t)

-----------------------------------------------------------------------------
(* The application (TerminalClaudeChat and its commands).  written, sent,  *)
(* prep and ret describe the step that led to the state: the file content  *)
(* it saved, the request it handed to the transport, its call of           *)
(* prepare_messages_with_cache and the index it got from the manager.      *)

Init ==
    /\ build \in Builds
    /\ messages = <<>>
    /\ conv_cache = None
    /\ cache_metadata = None
    /\ now = 0
    /\ nticks = 0
    /\ written = None
    /\ archive = None
    /\ sent = <<>>
    /\ prep = NoPrep
    /\ usage = NoUsage
    /\ ret = NoIndex
    /\ replaced = "-"
    /\ lastOp = "init"

Quiet ==
    /\ sent' = <<>>
    /\ prep' = NoPrep
    /\ usage' = NoUsage
    /\ ret' = NoIndex
    /\ replaced' = "-"

(* Time passes between two inputs *)
Tick(d) ==
    /\ nticks < MaxTicks
    /\ now + d <= MaxTime
    /\ now' = now + d
    /\ nticks' = nticks + 1
    /\ written' = None
    /\ Quiet
    /\ lastOp' = "tick"
    /\ UNCHANGED <<build, messages, conv_cache, cache_metadata, archive>>

(* send_message_to_claude with a response from the transport *)
SendOk(content, c, r) ==
    LET ms1 == add_user_message(messages, content)
        api == get_api_messages(ms1)
        p == Prepared(build, cache_metadata, now, api)
        ms2 == WriteBack(ms1, p.inp)
        md == update_from_response(cache_metadata, c, r, now)
        ms3 == add_assistant_message(ms2, "a")
    IN /\ sent' = p.out
       /\ prep' = [called |-> ShouldPrepare(build, cache_metadata, now),
                   before |-> api, after |-> p.inp]
       /\ cache_metadata' = md
       /\ messages' = ms3
       /\ conv_cache' = CacheManager_to_dict(md)
       /\ written' = save_conversation(ms3, CacheManager_to_dict(md))
       /\ usage' = [c |-> c, r |-> r]
       /\ ret' = NoIndex
       /\ replaced' = "-"
       /\ lastOp' = "send_ok"
       /\ UNCHANGED <<build, now, nticks, archive>>

send_message_except_cleared(md) == None

(* The manager's checkpoint after ChatService.send_message left its try    *)
(* block by an exception of the transport: the call of                     *)
(* update_from_response that ends the block was not reached, and the       *)
(* handler only prints the error.                                          *)
send_message_except(md) == md

(* send_message_to_claude when the transport raises: send_message returns  *)
(* None; only the src application takes the user message back.             *)
SendFail(content) ==
    LET ms1 == add_user_message(messages, content)
        api == get_api_messages(ms1)
        p == Prepared(build, cache_metadata, now, api)
        ms2 == WriteBack(ms1, p.inp)
    IN /\ sent' = p.out
       /\ prep' = [called |-> ShouldPrepare(build, cache_metadata, now),
                   before |-> api, after |-> p.inp]
       /\ messages' = IF build = "src" THEN remove_last_user_message(ms2)
                      ELSE ms2
       /\ written' = None
       /\ usage' = NoUsage
       /\ ret' = NoIndex
       /\ replaced' = "-"
       /\ lastOp' = "send_fail"
       /\ cache_metadata' = send_message_except(cache_metadata)
       /\ UNCHANGED <<build, conv_cache, now, nticks, archive>>

(* /cache with its argument: nothing, an integer, or text int() rejects *)
CacheArgs ==
    {[kind |-> "none", val |-> 0], [kind |-> "bad", val |-> 0]}
    \cup {[kind |-> "int", val |-> v] : v \in {0 - 5, 0, 5, 10, 60}}

(* CacheCommand._create_cache_point *)
CacheCreate(d) ==
    LET res == create_cache_point(cache_metadata, messages, d, now)
    IN IF ~has_messages(messages)
       THEN /\ lastOp' = "cache_rejected"
            /\ ret' = NoIndex
            /\ replaced' = "-"
            /\ written' = None
            /\ UNCHANGED <<cache_metadata, conv_cache>>
       ELSE /\ cache_metadata' = res.md
            /\ ret' = res.ret
            /\ IF res.ret # NoIndex
               THEN /\ conv_cache' = CacheManager_to_dict(res.md)
                    /\ written' = save_conversation(messages,
                                      CacheManager_to_dict(res.md))
                    /\ replaced' = Found(cache_metadata, now)
                    /\ lastOp' = "cache_created"
               ELSE /\ lastOp' = "cache_rejected"
                    /\ replaced' = "-"
                    /\ written' = None
                    /\ UNCHANGED conv_cache

DurationAllowed_positive(d) == d > 0

DurationAllowed(d) == d \in {ShortDuration, LongDuration}

(* CacheCommand.execute *)
CacheCmd(arg) ==
    /\ IF arg.kind = "none"
       THEN /\ lastOp' = "cache_info"
            /\ ret' = NoIndex
            /\ replaced' = "-"
            /\ written' = None
            /\ UNCHANGED <<cache_metadata, conv_cache>>
       ELSE IF arg.kind = "bad" \/ ~DurationAllowed(arg.val)
       THEN /\ lastOp' = "cache_rejected"
            /\ ret' = NoIndex
            /\ replaced' = "-"
            /\ written' = None
            /\ UNCHANGED <<cache_metadata, conv_cache>>
       ELSE CacheCreate(arg.val)
    /\ sent' = <<>>
    /\ prep' = NoPrep
    /\ usage' = NoUsage
    /\ UNCHANGED <<build, messages, now, nticks, archive>>

(* NewCommand.execute; confirm is the answer to the prompt that is shown   *)
(* when there are messages to archive, named says that the archive gets    *)
(* the name /load is later given (a time-stamped archive otherwise).       *)
NewCmd(confirm, named) ==
    /\ IF has_messages(messages)
       THEN IF confirm
            THEN /\ archive' = IF named
                               THEN Some(Conversation_to_dict(messages, conv_cache))
                               ELSE archive
                 /\ cache_metadata' = clear_cache(cache_metadata)
                 /\ messages' = <<>>
                 /\ conv_cache' = None
                 /\ lastOp' = "new"
            ELSE /\ lastOp' = "new_cancelled"
                 /\ UNCHANGED <<archive, cache_metadata, messages, conv_cache>>
       ELSE /\ cache_metadata' = clear_cache(cache_metadata)
            /\ messages' = <<>>
            /\ conv_cache' = None
            /\ lastOp' = "new"
            /\ UNCHANGED archive
    /\ written' = None
    /\ Quiet
    /\ UNCHANGED <<build, now, nticks>>

(* SaveCommand.execute with the name /load is later given *)
SaveCmd ==
    /\ has_messages(messages)
    /\ archive' = Some(Conversation_to_dict(messages, conv_cache))
    /\ written' = None
    /\ Quiet
    /\ lastOp' = "save"
    /\ UNCHANGED <<build, messages, conv_cache, cache_metadata, now, nticks>>

(* LoadCommand.execute for a file that exists *)
LoadCmd ==
    /\ archive # None
    /\ LET conv == Conversation_from_dict(archive[1])
       IN /\ messages' = conv.messages
          /\ conv_cache' = conv.cache_metadata
          /\ cache_metadata' =
                CacheManager_from_dict(cache_metadata, conv.cache_metadata)
    /\ written' = None
    /\ Quiet
    /\ lastOp' = "load"
    /\ UNCHANGED <<build, now, nticks, archive>>

CullCounts == {0, 1, 2, 4}

(* CullCommand.execute with count n; confirm is the answer to its prompt *)
CullCmd(n, confirm) ==
    /\ IF \/ n <= 0
          \/ ~has_messages(messages)
          \/ CountRole(messages, "user") < n
          \/ CountRole(messages, "assistant") < n
       THEN /\ lastOp' = "cull_rejected"
            /\ written' = None
            /\ UNCHANGED <<messages, cache_metadata>>
       ELSE IF ~confirm
       THEN /\ lastOp' = "cull_cancelled"
            /\ written' = None
            /\ UNCHANGED <<messages, cache_metadata>>
       ELSE /\ messages' = CullFrom(messages, 1, 0, 0, n)
            /\ cache_metadata' = clear_cache(cache_metadata)
            /\ written' = save_conversation(CullFrom(messages, 1, 0, 0, n),
                                            conv_cache)
            /\ lastOp' = "cull"
    /\ Quiet
    /\ UNCHANGED <<build, conv_cache, now, nticks, archive>>

(* ModelCommand._switch_model to the other of the two models *)
ModelCmd ==
    /\ messages' = IF has_messages(messages)
                   THEN add_model_switch_message(messages) ELSE messages
    /\ written' = save_conversation(messages', conv_cache)
    /\ Quiet
    /\ lastOp' = "model"
    /\ UNCHANGED <<build, conv_cache, cache_metadata, now, nticks, archive>>

(* CleanupCommand.execute, confirmed; deleted says whether anything was    *)
(* deleted: the conversation files, or the history and cache files.        *)
CleanupCmd(deleted) ==
    /\ archive # None => deleted
    /\ archive' = None
    /\ IF deleted
       THEN /\ messages' = <<>>
            /\ conv_cache' = None
            /\ written' = save_conversation(<<>>, None)
       ELSE /\ written' = None
            /\ UNCHANGED <<messages, conv_cache>>
    /\ Quiet
    /\ lastOp' = "cleanup"
    /\ UNCHANGED <<build, cache_metadata, now, nticks>>

(* run()'s finally clause saves the conversation; the next start builds a  *)
(* new TerminalClaudeChat, which loads the most recent file (the one just  *)
(* saved), and main() starts a new conversation when --new is given.       *)
Restart(newflag) ==
    LET file == save_conversation(messages, conv_cache)
        conv == Conversation_from_dict(file[1])
    IN /\ written' = file
       /\ cache_metadata' = CacheManager_from_dict(None, conv.cache_metadata)
       /\ messages' = IF newflag THEN <<>> ELSE conv.messages
       /\ conv_cache' = IF newflag THEN None ELSE conv.cache_metadata
       /\ Quiet
       /\ lastOp' = IF newflag THEN "start_new" ELSE "start"
       /\ UNCHANGED <<build, now, nticks, archive>>

(* The counters of a usage report: zero (or absent) and non-zero *)
Reported == {0, 1}

(* The conversation has room for k more messages below the bound max *)
Room(k, max) == Len(messages) + k <= max

Next ==
    \/ \E content \in UserContents, c \in Reported, r \in Reported :
          Room(2, MaxMsgs) /\ SendOk(content, c, r)
    \/ \E content \in UserContents : Room(1, MaxMsgs) /\ SendFail(content)
    \/ \E arg \in CacheArgs : CacheCmd(arg)
    \/ \E confirm \in BOOLEAN : NewCmd(confirm, FALSE)
    \/ \E n \in CullCounts, confirm \in BOOLEAN : CullCmd(n, confirm)
    \/ Room(1, MaxMsgs) /\ ModelCmd
    \/ \E deleted \in BOOLEAN : CleanupCmd(deleted)
    \/ \E newflag \in BOOLEAN : Restart(newflag)

Spec == Init /\ [][Next]_vars

-----------------------------------------------------------------------------
(* The application with its conversation files: /save, /new <name> and     *)
(* /load, on conversations of plain text messages.                         *)

NextDisk ==
    \/ \E c \in Reported :
          Room(2, MaxDiskMsgs) /\ SendOk(StrContent("u"), c, 0)
    \/ \E arg \in CacheArgs : CacheCmd(arg)
    \/ \E confirm \in BOOLEAN, named \in BOOLEAN : NewCmd(confirm, named)
    \/ SaveCmd
    \/ LoadCmd
    \/ \E newflag \in BOOLEAN : Restart(newflag)

SpecDisk == Init /\ [][NextDisk]_vars

-----------------------------------------------------------------------------
(* The application without checkpoints: conversations of plain text       *)
(* messages built by sends, failed sends and model switches, and /cull on  *)
(* them.                                                                   *)

NextCull ==
    \/ Room(2, MaxCullMsgs) /\ SendOk(StrContent("u"), 0, 0)
    \/ Room(1, MaxCullMsgs) /\ SendFail(StrContent("u"))
    \/ Room(1, MaxCullMsgs) /\ ModelCmd
    \/ \E n \in CullCounts, confirm \in BOOLEAN : CullCmd(n, confirm)

SpecCull == Init /\ [][NextCull]_vars

-----------------------------------------------------------------------------

(* The manager on its own, against the clock: its operations in the orders *)
(* the application calls them, on a conversation of n plain messages.      *)

Conv(n) == [i \in 1..n |-> Message(IF i % 2 = 1 THEN "user" ELSE "assistant",
                                   StrContent("t"), FALSE)]

Durations == {ShortDuration, LongDuration}

(* The steps of the clock, in seconds: one second, a second less than five *)
(* minutes, a second less than an hour.                                    *)
TickSteps ==
    {1, ShortDuration * SecondsPerMinute - 1, LongDuration * SecondsPerMinute - 1}

MgrCreate(n, d) ==
    LET res == create_cache_point(cache_metadata, Conv(n), d, now)
    IN /\ messages' = Conv(n)
       /\ cache_metadata' = res.md
       /\ ret' = res.ret
       /\ replaced' = IF res.ret # NoIndex THEN Found(cache_metadata, now) ELSE "-"
       /\ lastOp' = IF n = 0 THEN "create_empty" ELSE "create"
       /\ sent' = <<>>
       /\ prep' = NoPrep
       /\ usage' = NoUsage
       /\ written' = None
       /\ UNCHANGED <<build, conv_cache, now, nticks, archive>>

MgrUpdate(c, r) ==
    /\ cache_metadata' = update_from_response(cache_metadata, c, r, now)
    /\ usage' = [c |-> c, r |-> r]
    /\ lastOp' = "update"
    /\ sent' = <<>>
    /\ prep' = NoPrep
    /\ ret' = NoIndex
    /\ replaced' = Found(cache_metadata, now)
    /\ written' = None
    /\ UNCHANGED <<build, messages, conv_cache, now, nticks, archive>>

MgrClear ==
    /\ cache_metadata' = clear_cache(cache_metadata)
    /\ replaced' = Found(cache_metadata, now)
    /\ lastOp' = "clear"
    /\ sent' = <<>>
    /\ prep' = NoPrep
    /\ usage' = NoUsage
    /\ ret' = NoIndex
    /\ written' = None
    /\ UNCHANGED <<build, messages, conv_cache, now, nticks, archive>>

(* The checkpoint is written to the conversation file and a new manager    *)
(* reads it back, as on quitting and starting again.                       *)
MgrReload ==
    LET file == save_conversation(messages, CacheManager_to_dict(cache_metadata))
        conv == Conversation_from_dict(file[1])
    IN /\ written' = file
       /\ cache_metadata' = CacheManager_from_dict(None, conv.cache_metadata)
       /\ lastOp' = "reload"
       /\ Quiet
       /\ UNCHANGED <<build, messages, conv_cache, now, nticks, archive>>

NextLife ==
    \/ \E d \in TickSteps : Tick(d)
    \/ \E n \in 0..MaxConv, d \in Durations : MgrCreate(n, d)
    \/ \E c \in 0..MaxCreate, r \in 0..MaxRead : MgrUpdate(c, r)
    \/ MgrClear
    \/ MgrReload

SpecLife == Init /\ [][NextLife]_vars

-----------------------------------------------------------------------------
(* The manager's operations on arbitrary arguments *)

AnyDurations == {0 - 5, 0, 5, 10, 60}

(* The contents of the messages a request may hold: strings, and block     *)
(* lists that end in a text, an image, a document or another kind of       *)
(* block, or hold nothing.                                                 *)
FnContents ==
    {StrContent("a"), StrContent("b"),
     ListContent(<<Block("image", ""), Block("text", "a")>>),
     ListContent(<<Block("text", "a"), Block("image", "")>>),
     ListContent(<<Block("text", "b"), Block("document", "")>>),
     ListContent(<<Block("document", ""), Block("tool_result", "")>>),
     ListContent(<<>>)}

(* The API message lists of up to MaxConv messages *)
ApiLists ==
    UNION {{[i \in 1..n |-> [role |-> IF i % 2 = 1 THEN "user" ELSE "assistant",
                             content |-> cs[i]]] : cs \in [1..n -> FnContents]}
           : n \in 0..MaxConv}

MgrPrepare(msgs) ==
    LET p == prepare_messages_with_cache(cache_metadata, msgs)
    IN /\ sent' = p.out
       /\ prep' = [called |-> TRUE, before |-> msgs, after |-> p.inp]
       /\ lastOp' = "prepare"
       /\ usage' = NoUsage
       /\ ret' = NoIndex
       /\ replaced' = "-"
       /\ written' = None
       /\ UNCHANGED <<build, messages, conv_cache, cache_metadata, now, nticks,
                      archive>>

(* The keys CacheMetadata.from_dict reads with data[...]: a record that    *)
(* lacks one of them raises KeyError.                                      *)
RequiredKeys == {"cache_point_index", "created_at", "duration_minutes"}

(* The record d without the keys in drop *)
Without(d, drop) == [k \in DOMAIN d \ drop |-> d[k]]

(* The persisted records handed to from_dict: complete, or lacking one key *)
Drops == {{}} \cup {{k} : k \in DOMAIN CacheMetadata_to_dict(
                                   CacheMetadata(0, 0, 5, NoTime, 0, 0, 1))}

(* CacheManager.from_dict on the cache record of a conversation file: the *)
(* manager's own serialized checkpoint with the keys in drop removed;      *)
(* written is that file.  When CacheMetadata.from_dict raises, the         *)
(* assignment does not happen.                                             *)
MgrFromDict(drop) ==
    /\ cache_metadata # None
    /\ LET data == Without(CacheMetadata_to_dict(cache_metadata[1]), drop)
       IN /\ written' = save_conversation(messages, Some(data))
          /\ IF RequiredKeys \subseteq DOMAIN data
             THEN /\ cache_metadata' = CacheManager_from_dict(cache_metadata,
                                                             Some(data))
                  /\ lastOp' = "from_dict"
             ELSE /\ UNCHANGED cache_metadata
                  /\ lastOp' = "from_dict_error"
    /\ Quiet
    /\ UNCHANGED <<build, messages, conv_cache, now, nticks, archive>>

NextFn ==
    \/ \E n \in 0..MaxConv, d \in AnyDurations : MgrCreate(n, d)
    \/ \E c \in 0..MaxCreate, r \in 0..MaxRead : MgrUpdate(c, r)
    \/ MgrClear
    \/ \E drop \in Drops : MgrFromDict(drop)

SpecFn == Init /\ [][NextFn]_vars

-----------------------------------------------------------------------------
(* Properties *)

Sends == {"send_ok", "send_fail"}

(* The message at position idx (counted from 0) of a request carries the   *)
(* cache marker on its last content block.                                 *)
MarkedAt(list, idx) ==
    /\ idx + 1 \in 1..Len(list)
    /\ ~list[idx + 1].content.str
    /\ list[idx + 1].content.blocks # <<>>
    /\ LET bs == list[idx + 1].content.blocks
       IN bs[Len(bs)].cache_control # "none"

CarriesMarker(m) ==
    /\ ~m.content.str
    /\ \E j \in 1..Len(m.content.blocks) :
          m.content.blocks[j].cache_control # "none"

(* C1: prepare_messages_with_cache never mutates its input: after the call *)
(* the list it was given equals the list as it was before the call, and no *)
(* content block of the stored conversation carries a cache_control        *)
(* marker.                                                                 *)
C1_InputUnchanged ==
    /\ prep.called => prep.after = prep.before
    /\ \A i \in 1..Len(messages) : ~CarriesMarker(messages[i])

(* C2: the /cache command that creates a checkpoint sends nothing, and the *)
(* request of the very next send carries the marker on the message at      *)
(* cache_point_index, without any usage report in between.                 *)
C2_NextRequestMarked ==
    [][/\ lastOp' = "cache_created" => sent' = <<>>
       /\ (lastOp = "cache_created" /\ lastOp' \in Sends)
             => MarkedAt(sent', cache_metadata[1].cache_point_index)]_vars

(* C3: a checkpoint just created has status none, the status leaves none   *)
(* only by an update that sets last_hit_at, and from then on it is active  *)
(* while less than duration_minutes minutes have passed since last_hit_at  *)
(* and expired from exactly duration_minutes on, for 5 and for 60; the     *)
(* status shown in the prompt agrees with it.                              *)
C3_Lifecycle ==
    [][/\ lastOp' = "create" =>
             /\ cache_metadata' # None
             /\ get_status(cache_metadata'[1], now') = "none"
       /\ cache_metadata' # None =>
             LET m == cache_metadata'[1]
                 limit == m.duration_minutes * SecondsPerMinute
             IN /\ m.duration_minutes \in {ShortDuration, LongDuration}
                /\ get_status(m, now') = "none" <=> m.last_hit_at = NoTime
                /\ get_status(m, now') = "active" <=>
                       (m.last_hit_at # NoTime /\ now' - m.last_hit_at < limit)
                /\ get_status(m, now') = "expired" <=>
                       (m.last_hit_at # NoTime /\ now' - m.last_hit_at >= limit)
                /\ get_cache_status_display(cache_metadata', now') =
                       IF get_status(m, now') = "none" THEN ""
                       ELSE get_status(m, now')
       /\ (/\ cache_metadata # None
           /\ cache_metadata' # None
           /\ get_status(cache_metadata[1], now) = "none"
           /\ get_status(cache_metadata'[1], now') # "none")
             => (lastOp' = "update" /\ cache_metadata'[1].last_hit_at = now')]_vars

(* C3: an hour to the second after the last hit a 60-minute checkpoint is  *)
(* expired.                                                                *)
C3_Witness ==
    /\ cache_metadata # None
    /\ cache_metadata[1].duration_minutes = LongDuration
    /\ cache_metadata[1].last_hit_at # NoTime
    /\ now - cache_metadata[1].last_hit_at = LongDuration * SecondsPerMinute
    /\ get_status(cache_metadata[1], now) = "expired"

(* C4: create_cache_point on a non-empty list with duration 5 or 60        *)
(* returns len(messages) - 1 and leaves a checkpoint with that index and   *)
(* with total_cached_messages = len(messages).                             *)
C4_CreateIndex ==
    lastOp = "create" =>
        /\ Len(messages) > 0
        /\ ret = Len(messages) - 1
        /\ cache_metadata # None
        /\ cache_metadata[1].cache_point_index = Len(messages) - 1
        /\ cache_metadata[1].total_cached_messages = Len(messages)
        /\ cache_metadata[1].duration_minutes \in {ShortDuration, LongDuration}

C4_Witness ==
    /\ lastOp = "create"
    /\ Len(messages) = 2
    /\ ret = 1
    /\ cache_metadata # None
    /\ cache_metadata[1].duration_minutes = LongDuration
    /\ cache_metadata[1].total_cached_messages = 2

(* C5: create_cache_point on an empty list returns no index and leaves the *)
(* checkpoint as it was, field for field; without a checkpoint there is    *)
(* still none.                                                             *)
C5_EmptyRejected ==
    [][lastOp' = "create_empty" =>
          /\ messages' = <<>>
          /\ ret' = NoIndex
          /\ cache_metadata' = cache_metadata]_vars

(* C5: the rejected call found a checkpoint that had already been hit *)
C5_Witness ==
    /\ lastOp = "create_empty"
    /\ ret = NoIndex
    /\ cache_metadata # None
    /\ cache_metadata[1].last_hit_at # NoTime
    /\ cache_metadata[1].cache_creation_tokens > 0

(* C6: a checkpoint creation with a duration other than 5 and 60 is        *)
(* rejected, by the manager's create_cache_point as by the /cache command  *)
(* (also for an argument that is no integer): no index is returned and the *)
(* checkpoint and the conversation stay as they were.                      *)
C6_BadDurationRejected ==
    [][/\ \A n \in 0..MaxConv, d \in AnyDurations \ Durations :
             MgrCreate(n, d) => (ret' = NoIndex /\ cache_metadata' = cache_metadata)
       /\ \A arg \in CacheArgs :
             (/\ arg.kind = "bad" \/ (arg.kind = "int" /\ arg.val \notin Durations)
              /\ CacheCmd(arg))
                => /\ ret' = NoIndex
                   /\ UNCHANGED <<cache_metadata, messages>>]_vars

(* C7: whenever the manager holds a checkpoint, its duration_minutes is 5  *)
(* or 60, whether it was created by /cache or read back from a file at     *)
(* startup or by /load.                                                    *)
C7_DurationValid ==
    /\ cache_metadata # None =>
          cache_metadata[1].duration_minutes \in {ShortDuration, LongDuration}
    /\ conv_cache # None =>
          conv_cache[1].duration_minutes \in {ShortDuration, LongDuration}

(* C7: /load has replaced the manager's checkpoint by the one of the file *)
C7_Witness ==
    /\ lastOp = "load"
    /\ conv_cache # None
    /\ cache_metadata = Some(CacheMetadata_from_dict(conv_cache[1]))
    /\ cache_metadata[1].duration_minutes = LongDuration

C9_CreationRefreshesHit ==
    (lastOp = "update" /\ usage.c > 0 /\ cache_metadata # None) =>
        /\ cache_metadata[1].last_hit_at = now
        /\ get_status(cache_metadata[1], now) = "active"

(* C10: the first report with a creation count above zero sets             *)
(* cache_creation_tokens to the count and last_hit_at to the current time  *)
(* and leaves cache_hit_tokens at 0; afterwards no update changes          *)
(* cache_creation_tokens.                                                  *)
C10_WriteOnceHitZero ==
    [][(lastOp' = "update" /\ cache_metadata # None) =>
          LET m == cache_metadata[1]
              m2 == cache_metadata'[1]
          IN /\ (m.cache_creation_tokens = 0 /\ usage'.c > 0) =>
                   /\ m2.cache_creation_tokens = usage'.c
                   /\ m2.last_hit_at = now'
                   /\ m2.cache_hit_tokens = 0
             /\ m.cache_creation_tokens > 0 =>
                   m2.cache_creation_tokens = m.cache_creation_tokens]_vars

(* C10, as the code has it: the first report with a creation count above   *)
(* zero sets cache_creation_tokens to the count and last_hit_at to the     *)
(* current time; cache_hit_tokens becomes the read count of the same       *)
(* report when that is above zero and keeps its value otherwise;           *)
(* afterwards no update changes cache_creation_tokens, and without such a  *)
(* report it stays 0.                                                      *)
C10_WriteOnce ==
    [][(lastOp' = "update" /\ cache_metadata # None) =>
          LET m == cache_metadata[1]
              m2 == cache_metadata'[1]
          IN /\ (m.cache_creation_tokens = 0 /\ usage'.c > 0) =>
                   /\ m2.cache_creation_tokens = usage'.c
                   /\ m2.last_hit_at = now'
                   /\ m2.cache_hit_tokens =
                         IF usage'.r > 0 THEN usage'.r ELSE m.cache_hit_tokens
             /\ (m.cache_creation_tokens = 0 /\ usage'.c = 0) =>
                   m2.cache_creation_tokens = 0
             /\ m.cache_creation_tokens > 0 =>
                   m2.cache_creation_tokens = m.cache_creation_tokens]_vars

(* C10: a later report with another creation count has left the first      *)
(* count in place.                                                         *)
C10_Witness ==
    /\ lastOp = "update"
    /\ usage.c = 2
    /\ cache_metadata # None
    /\ cache_metadata[1].cache_creation_tokens = 1

(* C11: after an update with a read count r above zero on an existing      *)
(* checkpoint, cache_hit_tokens = r and last_hit_at is the current time,   *)
(* so get_cache_info reports status active with 0 minutes since the hit;   *)
(* this is so whatever creation count the same report carries and whether  *)
(* or not cache_creation_tokens was set before.                            *)
C11_ReadBranch ==
    (lastOp = "update" /\ usage.r > 0 /\ cache_metadata # None) =>
        /\ cache_metadata[1].cache_hit_tokens = usage.r
        /\ cache_metadata[1].last_hit_at = now
        /\ get_cache_info(cache_metadata, now)[1].status = "active"
        /\ get_cache_info(cache_metadata, now)[1].minutes_since_hit = 0

(* C11: the report carried a creation count as well, on a checkpoint whose *)
(* cache_creation_tokens an earlier report had set, some time after        *)
(* creation.                                                               *)
C11_Witness ==
    /\ lastOp = "update"
    /\ usage.r > 0
    /\ usage.c = 2
    /\ cache_metadata # None
    /\ cache_metadata[1].cache_creation_tokens = 1
    /\ cache_metadata[1].cache_hit_tokens = usage.r
    /\ cache_metadata[1].last_hit_at = now
    /\ now > cache_metadata[1].created_at

-----------------------------------------------------------------------------
(* prepare_messages_with_cache on arbitrary requests, for a checkpoint of  *)
(* any index and duration, before and after a cache creation was reported. *)
(* The call leaves the manager as it is, so a call that follows another    *)
(* call reaches no state the first could not reach: one call is taken      *)
(* between two other operations.                                           *)

NextPrep ==
    \/ \E n \in 0..MaxConv, d \in AnyDurations : MgrCreate(n, d)
    \/ \E c \in Reported : MgrUpdate(c, 0)
    \/ MgrClear
    \/ \E msgs \in ApiLists : ~prep.called /\ MgrPrepare(msgs)

SpecPrep == Init /\ [][NextPrep]_vars

-----------------------------------------------------------------------------
(* Properties of prepare_messages_with_cache *)

(* The call that led to this state found a checkpoint whose index is a     *)
(* position of the request.                                                *)
PreparedAtIndex ==
    /\ lastOp = "prepare"
    /\ cache_metadata # None
    /\ cache_metadata[1].cache_point_index + 1 \in 1..Len(prep.before)

(* What the string content s becomes under a checkpoint of duration d *)
OneTextBlock(s, d) ==
    ListContent(<<[type |-> "text", text |-> s.text,
                   cache_control |-> IF d = LongDuration THEN "1h" ELSE "5m"]>>)

(* C12: when the message at cache_point_index has string content, the      *)
(* returned message at that position has as content a list of exactly one  *)
(* text block with the original string and the marker, ttl "1h" for        *)
(* duration 60 and "5m" for duration 5.                                    *)
C12_StringMarked ==
    (/\ PreparedAtIndex
     /\ cache_metadata[1].duration_minutes \in {ShortDuration, LongDuration}
     /\ prep.before[cache_metadata[1].cache_point_index + 1].content.str)
      => LET i == cache_metadata[1].cache_point_index + 1
         IN /\ Len(sent) >= i
            /\ sent[i].role = prep.before[i].role
            /\ sent[i].content =
                  OneTextBlock(prep.before[i].content,
                               cache_metadata[1].duration_minutes)

(* C12, as the code has it: the same, for a checkpoint for which no cache  *)
(* creation has been reported (cache_creation_tokens = 0).                 *)
C12_StringMarkedUntilCreation ==
    (/\ PreparedAtIndex
     /\ cache_metadata[1].cache_creation_tokens = 0
     /\ cache_metadata[1].duration_minutes \in {ShortDuration, LongDuration}
     /\ prep.before[cache_metadata[1].cache_point_index + 1].content.str)
      => LET i == cache_metadata[1].cache_point_index + 1
         IN /\ Len(sent) >= i
            /\ sent[i].role = prep.before[i].role
            /\ sent[i].content =
                  OneTextBlock(prep.before[i].content,
                               cache_metadata[1].duration_minutes)

(* C12: the second message, the string "b", went out as one text block     *)
(* "b" with ttl "1h".                                                      *)
C12_Witness ==
    /\ PreparedAtIndex
    /\ cache_metadata[1].cache_point_index = 1
    /\ cache_metadata[1].duration_minutes = LongDuration
    /\ cache_metadata[1].cache_creation_tokens = 0
    /\ prep.before[2].content = StrContent("b")
    /\ sent[2].content.blocks =
          <<[type |-> "text", text |-> "b", cache_control |-> "1h"]>>

(* The blocks bs with the marker on the last one and nowhere else *)
LastBlockMarked(out, bs) ==
    /\ Len(out) = Len(bs)
    /\ \A j \in 1..Len(bs) - 1 : out[j] = bs[j]
    /\ out[Len(bs)].type = bs[Len(bs)].type
    /\ out[Len(bs)].text = bs[Len(bs)].text
    /\ out[Len(bs)].cache_control # "none"

EndsMarkable(bs) ==
    bs # <<>> /\ bs[Len(bs)].type \in {"text", "image", "document"}

(* C13: when the message at cache_point_index has block-list content, the  *)
(* returned message carries the marker on its last block and on no other   *)
(* block if the last block is a text, image or document block, and is      *)
(* returned as it was, without any marker, if the last block is of another *)
(* type or the list is empty.                                              *)
C13_LastBlockMarked ==
    (/\ PreparedAtIndex
     /\ ~prep.before[cache_metadata[1].cache_point_index + 1].content.str)
      => LET i == cache_metadata[1].cache_point_index + 1
             bs == prep.before[i].content.blocks
         IN /\ Len(sent) >= i
            /\ ~sent[i].content.str
            /\ IF EndsMarkable(bs)
               THEN LastBlockMarked(sent[i].content.blocks, bs)
               ELSE sent[i].content.blocks = bs

(* C13, as the code has it: the same for a checkpoint for which no cache   *)
(* creation has been reported; once one has been reported the message is   *)
(* returned as it was, whatever its last block.                            *)
C13_LastBlockMarkedUntilCreation ==
    (/\ PreparedAtIndex
     /\ ~prep.before[cache_metadata[1].cache_point_index + 1].content.str)
      => LET i == cache_metadata[1].cache_point_index + 1
             bs == prep.before[i].content.blocks
         IN /\ Len(sent) >= i
            /\ ~sent[i].content.str
            /\ IF EndsMarkable(bs) /\ cache_metadata[1].cache_creation_tokens = 0
               THEN LastBlockMarked(sent[i].content.blocks, bs)
               ELSE sent[i].content.blocks = bs

(* C13: a list ending in a document block went out marked on that block,   *)
(* its text block untouched.                                               *)
C13_Witness ==
    /\ PreparedAtIndex
    /\ cache_metadata[1].cache_creation_tokens = 0
    /\ LET i == cache_metadata[1].cache_point_index + 1
       IN /\ prep.before[i].content.blocks =
                <<Block("text", "b"), Block("document", "")>>
          /\ sent[i].content.blocks[1] = Block("text", "b")
          /\ sent[i].content.blocks[2].type = "document"
          /\ sent[i].content.blocks[2].cache_control # "none"

(* C14: the returned list has the length and order of the input, every     *)
(* returned message keeps its role, every returned message at a position   *)
(* other than cache_point_index has the content of the input message at    *)
(* that position, and without a checkpoint or with an empty input the      *)
(* input is returned unchanged.                                            *)
C14_OthersPassThrough ==
    lastOp = "prepare" =>
        /\ Len(sent) = Len(prep.before)
        /\ \A k \in 1..Len(prep.before) :
              /\ sent[k].role = prep.before[k].role
              /\ (cache_metadata = None
                    \/ k # cache_metadata[1].cache_point_index + 1)
                  => sent[k] = prep.before[k]
        /\ (cache_metadata = None \/ prep.before = <<>>) => sent = prep.before

(* C14: of two string messages the one at the checkpoint was marked, the   *)
(* other went out as it came in.                                           *)
C14_Witness ==
    /\ PreparedAtIndex
    /\ Len(prep.before) = 2
    /\ prep.before[1].content.str
    /\ prep.before[2].content.str
    /\ cache_metadata[1].cache_point_index = 0
    /\ sent[1] # prep.before[1]
    /\ sent[2] = prep.before[2]

-----------------------------------------------------------------------------
(* Properties of the checkpoint's lifetime *)

(* C15: the manager holds at most one checkpoint, and a successful         *)
(* create_cache_point leaves nothing of the previous one: whatever its     *)
(* status and token counts were, afterwards both token counts are 0,       *)
(* last_hit_at is absent, the status is none, and index, total and         *)
(* duration are those of the new call.                                     *)
C15_Replaced ==
    [][lastOp' = "create" =>
        \A n \in 1..MaxConv, d \in Durations :
          MgrCreate(n, d) =>
             /\ Len(cache_metadata') = 1
             /\ cache_metadata'[1].cache_creation_tokens = 0
             /\ cache_metadata'[1].cache_hit_tokens = 0
             /\ cache_metadata'[1].last_hit_at = NoTime
             /\ get_status(cache_metadata'[1], now') = "none"
             /\ cache_metadata'[1].cache_point_index = n - 1
             /\ cache_metadata'[1].total_cached_messages = n
             /\ cache_metadata'[1].duration_minutes = d
             /\ cache_metadata'[1].created_at = now']_vars

(* C15: the call, an hour after the start, replaced an expired checkpoint   *)
(* by a 5-minute one.                                                      *)
C15_Witness ==
    /\ lastOp = "create"
    /\ replaced = "expired"
    /\ cache_metadata # None
    /\ cache_metadata[1].duration_minutes = ShortDuration
    /\ cache_metadata[1].created_at = LongDuration * SecondsPerMinute
    /\ cache_metadata[1].last_hit_at = NoTime
    /\ cache_metadata[1].cache_creation_tokens = 0

(* C16: after the conversation was replaced by a fresh empty one, by /new, *)
(* by /cleanup that deleted something or by a start with --new, the        *)
(* manager holds no checkpoint.                                            *)
C16_ResetClears ==
    (\/ lastOp \in {"new", "start_new"}
     \/ (lastOp = "cleanup" /\ written # None))
      => (messages = <<>> /\ cache_metadata = None)

(* C17: after /load or the load at start-up the manager's checkpoint is    *)
(* the one stored in the loaded conversation, and there is none when the   *)
(* loaded conversation carries no cache record.                            *)
C17_LoadedCheckpoint ==
    lastOp \in {"load", "start"} =>
        cache_metadata = IF conv_cache = None THEN None
                         ELSE Some(CacheMetadata_from_dict(conv_cache[1]))

(* C18: a confirmed /cull removes messages and leaves the manager without  *)
(* a checkpoint; a /cull that is rejected or cancelled leaves the message  *)
(* list and the checkpoint as they were.                                   *)
C18_CullClears ==
    [][/\ lastOp' = "cull" =>
             /\ Len(messages') < Len(messages)
             /\ cache_metadata' = None
       /\ lastOp' \in {"cull_rejected", "cull_cancelled"} =>
             UNCHANGED <<messages, cache_metadata>>]_vars

(* C18: the cull was done on a conversation that had a checkpoint, whose   *)
(* record is still in the conversation.                                    *)
C18_Witness ==
    /\ lastOp = "cull"
    /\ cache_metadata = None
    /\ conv_cache # None
    /\ Len(messages) <= conv_cache[1].cache_point_index

(* C19: whenever a command writes the conversation file, the cache record  *)
(* in the file is the manager's serialized checkpoint, and there is none   *)
(* in the file when the manager holds none.                                *)
C19_SavedAgrees ==
    (written # None /\ lastOp \notin {"start", "start_new"}) =>
        Conversation_from_dict(written[1]).cache_metadata
            = CacheManager_to_dict(cache_metadata)

(* C20: a checkpoint that is serialized and deserialized again equals the  *)
(* original in all seven fields, also when last_hit_at is absent; a        *)
(* manager without checkpoint reads back as one without.                   *)
C20_RoundTrip ==
    [][lastOp' = "reload" =>
          /\ cache_metadata' = cache_metadata
          /\ cache_metadata # None =>
                /\ CacheMetadata_from_dict(CacheMetadata_to_dict(cache_metadata[1]))
                      = cache_metadata[1]
                /\ \A f \in DOMAIN cache_metadata[1] :
                      cache_metadata'[1][f] = cache_metadata[1][f]]_vars

(* C20: the checkpoint read back was created 4 minutes 59 seconds after    *)
(* the start and has never been hit.                                       *)
C20_Witness ==
    /\ lastOp = "reload"
    /\ cache_metadata # None
    /\ cache_metadata[1].last_hit_at = NoTime
    /\ cache_metadata[1].created_at = ShortDuration * SecondsPerMinute - 1
    /\ written # None
    /\ written[1].cache_metadata.last_hit_at = Null

-----------------------------------------------------------------------------
(* Properties of persisted records and of clearing *)

(* C21: from_dict fails, creating no checkpoint, for a record that lacks   *)
(* cache_point_index, created_at, cache_creation_tokens, cache_hit_tokens, *)
(* total_cached_messages or duration_minutes; only a record that lacks     *)
(* nothing but last_hit_at is read.                                        *)
C21_AllButHitRequired ==
    lastOp = "from_dict" =>
        {"cache_point_index", "created_at", "cache_creation_tokens",
         "cache_hit_tokens", "total_cached_messages", "duration_minutes"}
            \subseteq DOMAIN written[1].cache_metadata

(* C22: whatever clear_cache found in the manager (nothing, or a           *)
(* checkpoint of status none, active or expired), afterwards               *)
(* get_cache_info returns None, the status shown in the prompt is empty    *)
(* and has_active_cache is false.                                          *)
C22_ClearedStatus ==
    lastOp = "clear" =>
        /\ replaced \in {"nothing", "none", "active", "expired"}
        /\ get_cache_info(cache_metadata, now) = None
        /\ get_cache_status_display(cache_metadata, now) = ""
        /\ ~has_active_cache(cache_metadata, now)

(* C22: an expired checkpoint was cleared *)
C22_Witness ==
    /\ lastOp = "clear"
    /\ replaced = "expired"
    /\ get_cache_info(cache_metadata, now) = None

-----------------------------------------------------------------------------
(* Properties of sends, of the fixed fields and of the conversation *)

(* C23: a send whose request fails at the transport passes no usage report *)
(* to update_from_response, and every field of the checkpoint is           *)
(* afterwards what it was before the send.                                 *)
C23_FailedSendKeepsCheckpoint ==
    [][lastOp' = "send_fail" =>
          /\ usage' = NoUsage
          /\ cache_metadata' = cache_metadata]_vars

(* C23: a request carrying the marker of a checkpoint that had been hit    *)
(* failed.                                                                 *)
C23_Witness ==
    /\ lastOp = "send_fail"
    /\ prep.called
    /\ \E k \in 1..Len(sent) : CarriesMarker(sent[k])
    /\ cache_metadata # None
    /\ cache_metadata[1].last_hit_at # NoTime
    /\ usage = NoUsage

C26_NoMarkerLeft ==
    /\ (lastOp \in Sends /\ cache_metadata = None) =>
           \A k \in 1..Len(sent) : ~CarriesMarker(sent[k])
    /\ \A i \in 1..Len(messages) : ~CarriesMarker(messages[i])
    /\ written # None =>
           \A i \in 1..Len(written[1].messages) :
               ~CarriesMarker(written[1].messages[i])

C28_IndexInConversation ==
    cache_metadata # None =>
        /\ cache_metadata[1].cache_point_index < Len(messages)
        /\ cache_metadata[1].total_cached_messages =
               cache_metadata[1].cache_point_index + 1

(* C29: an expired checkpoint is active again as soon as a usage report    *)
(* with cache_read_input_tokens > 0 has been processed, and a report whose  *)
(* two counters are absent or zero changes no field of the checkpoint, so  *)
(* neither last_hit_at nor the status.                                     *)
C29_ReadRevives ==
    [][(lastOp' = "update" /\ cache_metadata # None) =>
          /\ cache_metadata' # None
          /\ (get_status(cache_metadata[1], now) = "expired" /\ usage'.r > 0)
                => get_status(cache_metadata'[1], now') = "active"
          /\ (usage'.c = 0 /\ usage'.r = 0) =>
                /\ cache_metadata' = cache_metadata
                /\ get_status(cache_metadata'[1], now') =
                       get_status(cache_metadata[1], now)]_vars

(* C29: a report with a read count arrived for a checkpoint that had       *)
(* expired.                                                                *)
C29_Witness ==
    /\ lastOp = "update"
    /\ replaced = "expired"
    /\ usage.r > 0
    /\ get_status(cache_metadata[1], now) = "active"

(* The number of messages of ms up to position i that have the role of     *)
(* ms[i]                                                                   *)
Rank(ms, i) == Cardinality({j \in 1..i : ms[j].role = ms[i].role})

(* The positions of ms other than those of its n earliest user and its n   *)
(* earliest assistant messages                                             *)
Kept(ms, n) ==
    {i \in 1..Len(ms) : ms[i].role \notin {"user", "assistant"} \/ Rank(ms, i) > n}

(* The messages of ms at the positions in Kept(ms, n), in their order *)
KeptInOrder(ms, n) ==
    [k \in 1..Cardinality(Kept(ms, n)) |->
        ms[CHOOSE i \in Kept(ms, n) :
              Cardinality({j \in Kept(ms, n) : j <= i}) = k]]

(* C30: a confirmed /cull with count n on a conversation with at least n   *)
(* user and at least n assistant messages removes exactly the n earliest   *)
(* user and the n earliest assistant messages, keeps every other message,  *)
(* model-switch messages included, in its order, and so shortens the list  *)
(* by 2n.                                                                  *)
C30_CullRemovesEarliest ==
    [][lastOp' = "cull" =>
          \A n \in CullCounts :
              CullCmd(n, TRUE) =>
                  /\ n > 0
                  /\ CountRole(messages, "user") >= n
                  /\ CountRole(messages, "assistant") >= n
                  /\ messages' = KeptInOrder(messages, n)
                  /\ Len(messages') = Len(messages) - 2 * n
                  /\ CountRole(messages', "user") =
                         CountRole(messages, "user") - n
                  /\ CountRole(messages', "assistant") =
                         CountRole(messages, "assistant") - n
                  /\ CountRole(messages', "system") =
                         CountRole(messages, "system")]_vars

(* C30: a cull left a model-switch message followed by a user message and  *)
(* an assistant message.                                                   *)
C30_Witness ==
    /\ lastOp = "cull"
    /\ Len(messages) = 3
    /\ messages[1].role = "system"
    /\ messages[2].role = "user"
    /\ messages[3].role = "assistant"

====
